---- MODULE Spec2Model ----
(***************************************************************************)
(* ModuleLoaderTool (src/src/manifest-processors.ts): the loader           *)
(* orchestrator with its manifest list, compiled cache (bundlesCache),     *)
(* in-flight cache (loadersCache) and the two bulk activation passes       *)
(* (init over BLOCK manifests, start over IMMEDIATELY manifests).          *)
(*                                                                         *)
(* JavaScript runs the orchestrator on one thread: every action below is   *)
(* one synchronous stretch of code, either a public method called by the   *)
(* host or one promise callback.  Host-supplied functions (hooks, the      *)
(* host runner, start exports, the network) are inputs: each action draws  *)
(* their behaviour with \E from the outcomes such a function can have: it  *)
(* returns, returns a task that resolves or rejects later, or throws.  A   *)
(* host function does not call back into the orchestrator while it runs.   *)
(*                                                                         *)
(* Three specifications: Spec is the orchestrator; SpecCompile is          *)
(* compileSource with the dependency map and the unknown-dependency        *)
(* resolver the host defined; SpecProcessors is ManifestProcessors, the    *)
(* registry of manifest types.                                             *)
(***************************************************************************)
EXTENDS Integers, Sequences, FiniteSets, TLC

\* ---------------------------------------------------------------- bounds
\* Public calls (init, start, loadBundleByName, manuallyDefineBundle) the
\* host makes in one behaviour.
MaxCalls == 3

\* ------------------------------------------------------------- constants
InvalidHttpStatusStart == 400

\* ModuleLoadStrategy; a manifest with neither value is loaded on demand.
BLOCK == "BLOCK"
IMMEDIATELY == "IMMEDIATELY"
LAZY == "LAZY"

Names == {"a", "b"}

Manifest(n, s) == [name |-> n, loadStrategy |-> s]

\* What the entrypoint's manifest url can answer (after the optional
\* flattener): the deployment's list, in three versions.
ManifestResponses ==
  { << Manifest("a", BLOCK), Manifest("b", BLOCK) >>,
    << Manifest("a", BLOCK), Manifest("b", IMMEDIATELY) >>,
    << Manifest("a", BLOCK), Manifest("b", LAZY) >> }

\* Manifests the host defines by hand.
ManualManifests ==
  { Manifest("a", BLOCK), Manifest("a", IMMEDIATELY), Manifest("b", LAZY) }

\* http statuses a bundle retrieval can report.
Statuses == {200, 399, 400, 404}

\* A module object is named by the bundle it belongs to and by where it
\* came from: compiled from the retrieved source, or handed in by the host.
COMPILED == "compiled"
MANUAL == "manual"
NoModule == "none"
VOID == "void"

\* The module objects whose exports hold a start entry point.
StartExports ==
  { <<"a", COMPILED>>, <<"b", COMPILED>>, <<"a", MANUAL>> }

ModuleIds == Names \X {COMPILED, MANUAL}

\* The optional filterFn of init.
FilterFns == {"none", "dropB"}

\* The value of a field that was never assigned, and of a call that
\* returns nothing.
Undefined == "undefined"

\* Names compiled code asks require for.
DependencyNames == {"react", "lodash", "moment"}

\* What defineDependencies can be given: each name is left out or maps to
\* the core application's object for it.
DependencyMaps == [DependencyNames -> {Undefined, "core"}]

\* this.unknownDependencyResolver: never assigned, or a host function that
\* returns an object for the names it knows and nothing for the others.
NoResolver == [defined |-> FALSE, knows |-> {}]
Resolvers == { [defined |-> TRUE, knows |-> S] : S \in SUBSET DependencyNames }

\* Bundle sources, by what their evaluation does: the text does not parse,
\* it throws at top level, it exports without requiring anything, or it
\* exports what require gave it for one name.
Sources == {"syntaxError", "throws", "plain", "useReact", "useLodash", "useMoment"}

Requires(source) ==
  IF source = "useReact" THEN "react"
  ELSE IF source = "useLodash" THEN "lodash"
  ELSE IF source = "useMoment" THEN "moment"
  ELSE "-"

\* Type keys given to registerManifestType.  "9" and "10" are integer-like
\* property names (array indices), "page" and "widget" are not.
TypeKeys == {"9", "10", "page", "widget"}

\* The number an integer-like key stands for; -1 for any other key.
IndexValue(key) ==
  IF key = "9" THEN 9 ELSE IF key = "10" THEN 10 ELSE -1

\* Type matchers, by the manifests they accept.
Matchers == {"any", "onlyA", "never"}

Matches(matcher, m) == matcher = "any" \/ (matcher = "onlyA" /\ m.name = "a")

\* Manifests given to the manifest processors.
ClassifiedManifests == { Manifest("a", BLOCK), Manifest("b", LAZY) }

VARIABLES
  urlFormatter,       \* TRUE once defineUrlFormatter was called
  entrypoint,         \* TRUE once defineEntrypoint was called
  dependencies,       \* this.dependencies
  unknownDependencyResolver, \* this.unknownDependencyResolver
  typeMatchers,       \* manifestProcessors.typeMatchers: its properties as
                      \* [key, value] records, in the order they were created
  registrations,      \* history: the registerManifestType calls, in order
  listDefined,        \* FALSE while this.bundlesList is still undefined
  bundlesList,        \* this.bundlesList
  bundlesListStream,  \* the value bundlesListStream$ holds
  bundlesCache,       \* name -> NoModule, COMPILED or MANUAL
  loadersCache,       \* name -> where the recorded load task stands
  initTask,           \* the promise init() returned
  startTask,          \* the promise start() returned
  lastCall,           \* the public call made in the latest step, and what it threw
  calls,              \* public calls made so far
  \* history of what happened, for the properties
  retrievals,         \* name -> bundle retrievals issued
  compiles,           \* name -> compileSource runs
  startCount,         \* module object -> invocations of its start export
  observed,           \* name -> outcomes the callers that asked for it got
  failed              \* name -> what failed for it: "load" (a step of its load,
                      \* contained), "thrown" (its preprocessor threw),
                      \* "start" (a start export of its module threw)

vars == << urlFormatter, entrypoint, dependencies, unknownDependencyResolver,
           typeMatchers, registrations, listDefined, bundlesList, bundlesListStream,
           bundlesCache, loadersCache, initTask, startTask, lastCall, calls,
           retrievals, compiles, startCount, observed, failed >>

compiler == << dependencies, unknownDependencyResolver >>
processors == << typeMatchers, registrations >>
config == << urlFormatter, entrypoint, compiler, processors >>
list == << listDefined, bundlesList, bundlesListStream >>
history == << retrievals, compiles, startCount, observed, failed >>

\* ------------------------------------------------------------ helpers
RECURSIVE SelectNames(_, _)
\* list.filter(pred).map(m => m.name), pred given as the set of strategies
SelectNames(seq, strategies) ==
  IF seq = << >> THEN << >>
  ELSE IF Head(seq).loadStrategy \in strategies
       THEN << Head(seq).name >> \o SelectNames(Tail(seq), strategies)
       ELSE SelectNames(Tail(seq), strategies)

ListNames(seq) == { seq[i].name : i \in 1..Len(seq) }

FilterAccepts(fn, m) == fn = "none" \/ m.name # "b"

RECURSIVE FilterList(_, _)
FilterList(seq, fn) ==
  IF seq = << >> THEN << >>
  ELSE IF FilterAccepts(fn, Head(seq))
       THEN << Head(seq) >> \o FilterList(Tail(seq), fn)
       ELSE FilterList(Tail(seq), fn)

Inc(f, x) == [f EXCEPT ![x] = @ + 1]

Fail(f, n, kind) == [f EXCEPT ![n] = @ \cup {kind}]

\* The promise of a bulk pass: where it stands, and what the pass got from
\* loadBundleByManifest for each manifest it asked for.
InitIdle == [phase |-> "idle", filterFn |-> "none", members |-> << >>]

\* runner: "notCalled", "pending" (called, its task not settled), "resolved"
\* or "rejected".
StartIdle == [phase |-> "idle", runner |-> "notCalled", members |-> << >>]

\* A promise that is settled (or was never asked for).
Settled == {"idle", "resolved", "rej_fetch", "rej_type", "rej_load", "rej_start",
            "rej_runner"}

\* A call that returned nothing worth recording, or threw err.
Call(op, n, err) == [op |-> op, name |-> n, thrown |-> err, returned |-> "-"]

\* A call that returned value.
Return(op, n, value) == [op |-> op, name |-> n, thrown |-> "none", returned |-> value]

\* No public call was made in the latest step.
NoCall == Call("none", "-", "none")

Init ==
  /\ urlFormatter = FALSE
  /\ entrypoint = FALSE
  /\ dependencies = [d \in DependencyNames |-> Undefined]
  /\ unknownDependencyResolver = NoResolver
  /\ typeMatchers = << >>
  /\ registrations = << >>
  /\ listDefined = FALSE
  /\ bundlesList = << >>
  /\ bundlesListStream = << >>
  /\ bundlesCache = [n \in Names |-> NoModule]
  /\ loadersCache = [n \in Names |-> "absent"]
  /\ initTask = InitIdle
  /\ startTask = StartIdle
  /\ lastCall = NoCall
  /\ calls = 0
  /\ retrievals = [n \in Names |-> 0]
  /\ compiles = [n \in Names |-> 0]
  /\ startCount = [m \in ModuleIds |-> 0]
  /\ observed = [n \in Names |-> {}]
  /\ failed = [n \in Names |-> {}]

\* ------------------------------------------------------ configuration
defineUrlFormatter ==
  /\ urlFormatter' = TRUE
  /\ lastCall' = NoCall
  /\ UNCHANGED << entrypoint, compiler, processors, list, bundlesCache,
                  loadersCache, initTask, startTask, calls, history >>

defineEntrypoint ==
  /\ entrypoint' = TRUE
  /\ lastCall' = NoCall
  /\ UNCHANGED << urlFormatter, compiler, processors, list, bundlesCache,
                  loadersCache, initTask, startTask, calls, history >>

\* ------------------------------------------------- the load of one bundle
\* loadersCache[n]: "absent", or the step the recorded task waits for
\* ("pre": the preprocessor, "fetch": the retrieval, "compile": compileSource,
\* "place": the callback that caches the module, "post": the postprocessor),
\* or how it resolved ("module": the compiled module, "void": no module).
Done == {"module", "void"}

TaskValue(state) == IF state = "module" THEN COMPILED ELSE VOID

\* fetchBundleSource: what the callback on the response does.
fetchBundleSource(status) ==
  IF status >= InvalidHttpStatusStart THEN "LoadBundleError" ELSE "source"

\* loadBundleByManifest without the look into loadersCache: a request for a
\* bundle that is not cached yet always starts a load.
loadBundleByManifestNoAttach(lc, bc, n, pre) ==
  IF bc[n] # NoModule THEN [lc |-> lc, ret |-> bc[n]]
  ELSE IF pre = "throw" THEN [lc |-> lc, ret |-> "throw"]
  ELSE [lc |-> [lc EXCEPT ![n] = "pre"], ret |-> "task"]

\* loadBundleByManifest(manifest) for manifest.name = n.  pre is what the
\* registered preprocessor does when runPreprocessor calls it: it returns a
\* task ("pending") or throws ("throw").  ret is what the caller gets: the
\* cached module (Promise.resolve of it), the recorded "task", or "throw".
loadBundleByManifest(lc, bc, n, pre) ==
  IF bc[n] # NoModule THEN [lc |-> lc, ret |-> bc[n]]
  ELSE IF lc[n] # "absent" THEN [lc |-> lc, ret |-> "task"]
  ELSE IF pre = "throw" THEN [lc |-> lc, ret |-> "throw"]
  ELSE [lc |-> [lc EXCEPT ![n] = "pre"], ret |-> "task"]

\* What a caller that got ret for n has seen so far: a cached module at
\* once, the value of a task that is already resolved; the value of a
\* pending task is added when the task resolves.
Observe(obs, lc, n, ret) ==
  IF ret \in {COMPILED, MANUAL} THEN [obs EXCEPT ![n] = @ \cup {ret}]
  ELSE IF ret = "task" /\ lc[n] \in Done
       THEN [obs EXCEPT ![n] = @ \cup {TaskValue(lc[n])}]
       ELSE obs

\* A .catch that also drops the recorded task of the failed load.
ContainAndForget(n) ==
  /\ loadersCache' = [loadersCache EXCEPT ![n] = "absent"]
  /\ observed' = [observed EXCEPT ![n] = @ \cup {VOID}]
  /\ failed' = Fail(failed, n, "load")

\* The .catch at the end of the chain: the task resolves to no module.
Contain(n) ==
  /\ loadersCache' = [loadersCache EXCEPT ![n] = "void"]
  /\ observed' = [observed EXCEPT ![n] = @ \cup {VOID}]
  /\ failed' = Fail(failed, n, "load")

\* A chain that issues the retrieval whatever the preprocessor's task did.
PreprocessorSettlesUngated(n) ==
  /\ loadersCache[n] = "pre"
  /\ retrievals' = Inc(retrievals, n)
  /\ \E ok \in BOOLEAN :
       IF ok
       THEN /\ loadersCache' = [loadersCache EXCEPT ![n] = "fetch"]
            /\ UNCHANGED << observed, failed >>
       ELSE Contain(n)
  /\ lastCall' = NoCall
  /\ UNCHANGED << config, list, bundlesCache, initTask, startTask,
                  calls, compiles, startCount >>

\* The preprocessor's task settles; on success the next callback calls
\* fetchBundleSource(serviceFileUrl), which issues the retrieval.
PreprocessorSettles(n) ==
  /\ loadersCache[n] = "pre"
  /\ \E ok \in BOOLEAN :
       IF ok
       THEN /\ loadersCache' = [loadersCache EXCEPT ![n] = "fetch"]
            /\ retrievals' = Inc(retrievals, n)
            /\ UNCHANGED << observed, failed >>
       ELSE /\ Contain(n)
            /\ UNCHANGED retrievals
  /\ lastCall' = NoCall
  /\ UNCHANGED << config, list, bundlesCache, initTask, startTask,
                  calls, compiles, startCount >>

\* The retrieval answers (or the network fails).
FetchResponds(n) ==
  /\ loadersCache[n] = "fetch"
  /\ \E status \in Statuses \cup {0} :
       IF status # 0 /\ fetchBundleSource(status) = "source"
       THEN /\ loadersCache' = [loadersCache EXCEPT ![n] = "compile"]
            /\ UNCHANGED << observed, failed >>
       ELSE Contain(n)
  /\ lastCall' = NoCall
  /\ UNCHANGED << config, list, bundlesCache, initTask, startTask,
                  calls, retrievals, compiles, startCount >>

\* compileSource(source, dependencies, unknownDependencyResolver) runs.
CompileSource(n) ==
  /\ loadersCache[n] = "compile"
  /\ compiles' = Inc(compiles, n)
  /\ \E outcome \in {"module", "CompileModuleError"} :
       IF outcome = "module"
       THEN /\ loadersCache' = [loadersCache EXCEPT ![n] = "place"]
            /\ UNCHANGED << observed, failed >>
       ELSE Contain(n)
  /\ lastCall' = NoCall
  /\ UNCHANGED << config, list, bundlesCache, initTask, startTask,
                  calls, retrievals, startCount >>

\* The callback after compile: the module goes into bundlesCache, then the
\* postprocessor is called; a throw of it rejects this callback's task.
PlaceInCache(n) ==
  /\ loadersCache[n] = "place"
  /\ bundlesCache' = [bundlesCache EXCEPT ![n] = COMPILED]
  /\ \E post \in {"pending", "throw"} :
       IF post = "pending"
       THEN /\ loadersCache' = [loadersCache EXCEPT ![n] = "post"]
            /\ UNCHANGED << observed, failed >>
       ELSE Contain(n)
  /\ lastCall' = NoCall
  /\ UNCHANGED << config, list, initTask, startTask, calls,
                  retrievals, compiles, startCount >>

\* The postprocessor's task settles: the load resolves to the module, or
\* the PostprocessorError is contained.
PostprocessorSettles(n) ==
  /\ loadersCache[n] = "post"
  /\ \E ok \in BOOLEAN :
       IF ok
       THEN /\ loadersCache' = [loadersCache EXCEPT ![n] = "module"]
            /\ observed' = [observed EXCEPT ![n] = @ \cup {COMPILED}]
            /\ UNCHANGED failed
       ELSE Contain(n)
  /\ lastCall' = NoCall
  /\ UNCHANGED << config, list, bundlesCache, initTask, startTask,
                  calls, retrievals, compiles, startCount >>

\* ------------------------------------------------------ loadBundleByName
loadBundleByName(n) ==
  /\ calls < MaxCalls
  /\ calls' = calls + 1
  /\ IF ~listDefined
     THEN /\ lastCall' = Call("loadBundleByName", n, "TypeError")
          /\ UNCHANGED << loadersCache, observed >>
     ELSE IF n \notin ListNames(bundlesList)
     THEN /\ lastCall' = Call("loadBundleByName", n, "NotDeclared")
          /\ UNCHANGED << loadersCache, observed >>
     ELSE \E pre \in {"pending", "throw"} :
            LET r == loadBundleByManifest(loadersCache, bundlesCache, n, pre) IN
            /\ loadersCache' = r.lc
            /\ observed' = Observe(observed, r.lc, n, r.ret)
            /\ lastCall' = Call("loadBundleByName", n,
                                IF r.ret = "throw" THEN "PreprocessorThrow" ELSE "none")
  /\ failed' = IF lastCall'.thrown = "PreprocessorThrow"
                THEN Fail(failed, n, "thrown") ELSE failed
  /\ UNCHANGED << config, list, bundlesCache, initTask, startTask,
                  retrievals, compiles, startCount >>

\* ------------------------------------------------------ bulkLoadBundles
RECURSIVE MapLoad(_, _, _, _, _)
\* names.map(manifest => this.loadBundleByManifest(manifest)), left to right;
\* thrower is the bundle whose preprocessor throws when called ("-": none).
\* The throw of one call ends the map: got holds what was returned so far,
\* and the throwing call last.
MapLoad(lc, bc, names, thrower, got) ==
  IF names = << >> THEN [lc |-> lc, members |-> got, thrown |-> FALSE]
  ELSE LET n == Head(names)
           r == loadBundleByManifest(lc, bc, n, IF n = thrower THEN "throw" ELSE "pending")
           m == Append(got, [name |-> n, ret |-> r.ret])
       IN IF r.ret = "throw"
          THEN [lc |-> r.lc, members |-> m, thrown |-> TRUE]
          ELSE MapLoad(r.lc, bc, Tail(names), thrower, m)

RECURSIVE ObserveAll(_, _, _)
ObserveAll(obs, lc, members) ==
  IF members = << >> THEN obs
  ELSE ObserveAll(Observe(obs, lc, Head(members).name, Head(members).ret),
                  lc, Tail(members))

\* Promise.all over the members' tasks is resolved: none of them is pending.
AllResolved(members) ==
  \A i \in 1..Len(members) :
    members[i].ret = "task" => loadersCache[members[i].name] \in Done

\* The value Promise.all hands over for one member.
Result(member) ==
  IF member.ret = "task" THEN TaskValue(loadersCache[member.name]) ELSE member.ret

RECURSIVE ForEachStart(_, _, _)
\* compiledBundles.forEach: the start export of every module that has one is
\* called, in order; thrower is the bundle whose start export throws
\* ("-": none), which ends the loop.
ForEachStart(members, sc, thrower) ==
  IF members = << >> THEN [sc |-> sc, thrown |-> FALSE]
  ELSE LET n == Head(members).name
           v == Result(Head(members))
       IN IF v # VOID /\ << n, v >> \in StartExports
          THEN IF n = thrower
               THEN [sc |-> Inc(sc, << n, v >>), thrown |-> TRUE]
               ELSE ForEachStart(Tail(members), Inc(sc, << n, v >>), thrower)
          ELSE ForEachStart(Tail(members), sc, thrower)

Throwers == Names \cup {"-"}

\* The first half of bulkLoadBundles(filterFn) on task (initTask or
\* startTask): filter, map, Promise.all.
BulkLoad(task, strategies, thrower) ==
  IF ~listDefined
  THEN [task |-> [task EXCEPT !.phase = "rej_type"], lc |-> loadersCache,
        obs |-> observed, failed |-> failed]
  ELSE LET r == MapLoad(loadersCache, bundlesCache,
                        SelectNames(bundlesList, strategies), thrower, << >>)
       IN IF r.thrown
          THEN [task |-> [task EXCEPT !.phase = "rej_load", !.members = r.members],
                lc |-> r.lc,
                obs |-> observed,
                failed |-> Fail(failed, thrower, "thrown")]
          ELSE [task |-> [task EXCEPT !.phase = "loading", !.members = r.members],
                lc |-> r.lc,
                obs |-> ObserveAll(observed, r.lc, r.members),
                failed |-> failed]

\* The second half: the callback on Promise.all.
BulkStart(task, thrower) ==
  LET r == ForEachStart(task.members, startCount, thrower)
  IN [task |-> [task EXCEPT !.phase = IF r.thrown THEN "rej_start" ELSE "resolved"],
      sc |-> r.sc,
      failed |-> IF r.thrown THEN Fail(failed, thrower, "start") ELSE failed]

\* ----------------------------------------------------------------- init
\* A startup check that looks at the url formatter only.
startupCheckUrlOnly == IF ~urlFormatter THEN "ConfigError" ELSE "none"

\* startupCheck()
startupCheck == IF ~urlFormatter \/ ~entrypoint THEN "ConfigError" ELSE "none"

\* init(filterFn): startupCheck, then the manifest list is asked for.
init(fn) ==
  /\ calls < MaxCalls
  /\ initTask.phase \in Settled
  /\ calls' = calls + 1
  /\ lastCall' = Call("init", "-", startupCheck)
  /\ initTask' = IF startupCheck = "none"
                 THEN [phase |-> "fetchingList", filterFn |-> fn, members |-> << >>]
                 ELSE initTask
  /\ UNCHANGED << config, list, bundlesCache, loadersCache, startTask, history >>

\* A setter that stores the list and publishes nothing.
setBundlesListSilent(l) ==
  /\ listDefined' = TRUE
  /\ bundlesList' = l
  /\ UNCHANGED bundlesListStream

\* setBundlesList(list)
setBundlesList(l) ==
  /\ listDefined' = TRUE
  /\ bundlesList' = l
  /\ bundlesListStream' = l

\* subscribe(fn): what a subscriber holds after the latest emission of
\* bundlesListStream$: bundles.filter(filterFn), filterFn accepting every
\* manifest when no fn was given ("none").
subscribe(fn) == FilterList(bundlesListStream, fn)

\* The manifest list arrives and is installed (filtered), or the retrieval
\* or JSON.parse fails.
InitInstallList ==
  /\ initTask.phase = "fetchingList"
  /\ \/ \E response \in ManifestResponses :
          /\ setBundlesList(FilterList(response, initTask.filterFn))
          /\ initTask' = [initTask EXCEPT !.phase = "installed"]
     \/ /\ initTask' = [initTask EXCEPT !.phase = "rej_fetch"]
        /\ UNCHANGED list
  /\ lastCall' = NoCall
  /\ UNCHANGED << config, bundlesCache, loadersCache, startTask, calls,
                  history >>

\* A filter that takes every manifest that is not lazy.
EagerFilter == {BLOCK, IMMEDIATELY}

\* The filter of init's pass: manifest.loadStrategy === ModuleLoadStrategy.BLOCK
BlockFilter == {BLOCK}

\* The next callback of init: bulkLoadBundles over the BLOCK manifests.
InitBulkLoad ==
  /\ initTask.phase = "installed"
  /\ \E thrower \in Throwers :
       LET r == BulkLoad(initTask, BlockFilter, thrower) IN
       /\ initTask' = r.task
       /\ loadersCache' = r.lc
       /\ observed' = r.obs
       /\ failed' = r.failed
  /\ lastCall' = NoCall
  /\ UNCHANGED << config, list, bundlesCache, startTask, calls,
                  retrievals, compiles, startCount >>

\* Every BLOCK load is resolved: the start exports run and init() settles.
InitBulkStart ==
  /\ initTask.phase = "loading"
  /\ AllResolved(initTask.members)
  /\ \E thrower \in Throwers :
       LET r == BulkStart(initTask, thrower) IN
       /\ initTask' = r.task
       /\ startCount' = r.sc
       /\ failed' = r.failed
  /\ lastCall' = NoCall
  /\ UNCHANGED << config, list, bundlesCache, loadersCache, startTask,
                  calls, retrievals, compiles, observed >>

\* ---------------------------------------------------------------- start
\* start(runner): everything happens in callbacks of Promise.resolve().
start ==
  /\ calls < MaxCalls
  /\ startTask.phase \in Settled
  /\ calls' = calls + 1
  /\ lastCall' = Call("start", "-", "none")
  /\ startTask' = [phase |-> "scheduled", runner |-> "notCalled", members |-> << >>]
  /\ UNCHANGED << config, list, bundlesCache, loadersCache, initTask, history >>

\* The first callback calls runner(): it returns (a task or a value), or
\* throws.
StartRunRunner ==
  /\ startTask.phase = "scheduled"
  /\ \E r \in {"pending", "throw"} :
       startTask' = IF r = "throw"
                    THEN [startTask EXCEPT !.phase = "rej_runner", !.runner = "rejected"]
                    ELSE [startTask EXCEPT !.phase = "runner", !.runner = "pending"]
  /\ lastCall' = NoCall
  /\ UNCHANGED << config, list, bundlesCache, loadersCache, initTask,
                  calls, history >>

\* What runner() returned settles.
StartRunnerSettles ==
  /\ startTask.phase = "runner"
  /\ \E ok \in BOOLEAN :
       startTask' = IF ok
                    THEN [startTask EXCEPT !.phase = "runnerSettled", !.runner = "resolved"]
                    ELSE [startTask EXCEPT !.phase = "rej_runner", !.runner = "rejected"]
  /\ lastCall' = NoCall
  /\ UNCHANGED << config, list, bundlesCache, loadersCache, initTask,
                  calls, history >>

\* The bulk load started as soon as runner() was called, beside it.
StartBulkBesideRunner == startTask.phase \in {"runner", "runnerSettled"}

\* When the second callback of start runs: .then(() => runner()).then(...)
StartBulkReady == startTask.phase = "runnerSettled"

\* The filter of start's pass:
\* manifest.loadStrategy === ModuleLoadStrategy.IMMEDIATELY
ImmediatelyFilter == {IMMEDIATELY}

\* The second callback: bulkLoadBundles over the IMMEDIATELY manifests.
StartBulkLoad ==
  /\ StartBulkReady
  /\ \E thrower \in Throwers :
       LET r == BulkLoad(startTask, ImmediatelyFilter, thrower) IN
       /\ startTask' = r.task
       /\ loadersCache' = r.lc
       /\ observed' = r.obs
       /\ failed' = r.failed
  /\ lastCall' = NoCall
  /\ UNCHANGED << config, list, bundlesCache, initTask, calls,
                  retrievals, compiles, startCount >>

\* Every IMMEDIATELY load is resolved: the start exports run, start() settles.
StartBulkStart ==
  /\ startTask.phase = "loading"
  /\ AllResolved(startTask.members)
  /\ \E thrower \in Throwers :
       LET r == BulkStart(startTask, thrower) IN
       /\ startTask' = r.task
       /\ startCount' = r.sc
       /\ failed' = r.failed
  /\ lastCall' = NoCall
  /\ UNCHANGED << config, list, bundlesCache, loadersCache, initTask,
                  calls, retrievals, compiles, observed >>

\* ------------------------------------------------- manuallyDefineBundle
\* The end of manuallyDefineBundle: the duplicate check, then the cache.
DefineInCache(bc, n) ==
  IF bc[n] # NoModule
  THEN [bc |-> bc, thrown |-> "DuplicateManifest"]
  ELSE [bc |-> [bc EXCEPT ![n] = MANUAL], thrown |-> "none"]

\* manuallyDefineBundle(manifest, bundle), bundle the host's module object
\* for manifest.name; throws is whether its start export throws.
manuallyDefineBundle(manifest, throws) ==
  LET n == manifest.name
      hasStart == << n, MANUAL >> \in StartExports
      d == DefineInCache(bundlesCache, n)
  IN
  /\ calls < MaxCalls
  /\ calls' = calls + 1
  /\ IF ~listDefined
     THEN /\ lastCall' = Call("manuallyDefineBundle", n, "TypeError")
          /\ UNCHANGED << list, bundlesCache, startCount, failed >>
     ELSE /\ setBundlesList(Append(bundlesList, manifest))
          /\ startCount' = IF hasStart THEN Inc(startCount, << n, MANUAL >>)
                           ELSE startCount
          /\ IF hasStart /\ throws
             THEN /\ lastCall' = Call("manuallyDefineBundle", n, "StartThrow")
                  /\ failed' = Fail(failed, n, "start")
                  /\ UNCHANGED bundlesCache
             ELSE /\ lastCall' = Call("manuallyDefineBundle", n, d.thrown)
                  /\ bundlesCache' = d.bc
                  /\ UNCHANGED failed
  /\ UNCHANGED << config, loadersCache, initTask, startTask, retrievals,
                  compiles, observed >>

\* -------------------------------------------------------- compileSource
defineDependencies(deps) ==
  /\ dependencies' = deps
  /\ lastCall' = NoCall
  /\ UNCHANGED << urlFormatter, entrypoint, unknownDependencyResolver,
                  processors, list, bundlesCache, loadersCache, initTask,
                  startTask, calls, history >>

defineUnknownDependencyResolver(resolver) ==
  /\ unknownDependencyResolver' = resolver
  /\ lastCall' = NoCall
  /\ UNCHANGED << urlFormatter, entrypoint, dependencies, processors, list,
                  bundlesCache, loadersCache, initTask, startTask, calls,
                  history >>

\* unknownResolver(name)
Resolve(resolver, name) ==
  IF name \in resolver.knows THEN "resolved" ELSE Undefined

\* The require handed to the evaluated source: what require(name) throws,
\* or the value it returns.
require(deps, resolver, name) ==
  LET dependency == deps[name] IN
  IF dependency # Undefined
  THEN [thrown |-> "none", value |-> dependency]
  ELSE IF resolver.defined
       THEN LET unknownDependency == Resolve(resolver, name) IN
            IF unknownDependency = Undefined
            THEN [thrown |-> "NoDependencyError", value |-> "-"]
            ELSE [thrown |-> "none", value |-> unknownDependency]
       ELSE [thrown |-> "none", value |-> dependency]

\* eval(source): what the evaluation throws, or what it leaves in
\* module.exports.
Eval(source, deps, resolver) ==
  IF source = "syntaxError" THEN [thrown |-> "SyntaxError", value |-> "-"]
  ELSE IF source = "throws" THEN [thrown |-> "Error", value |-> "-"]
  ELSE IF source = "plain" THEN [thrown |-> "none", value |-> "own"]
  ELSE require(deps, resolver, Requires(source))

\* compileSource(source, dependencies, unknownResolver): the try/catch
\* around eval.
compileSource(source, deps, resolver) ==
  LET ex == Eval(source, deps, resolver) IN
  IF ex.thrown # "none"
  THEN [thrown |-> "CompileModuleError", value |-> "-"]
  ELSE ex

\* The compile callback of a load, on a retrieved source:
\* compileSource(source, this.dependencies, this.unknownDependencyResolver).
CompileBundle(source) ==
  LET r == compileSource(source, dependencies, unknownDependencyResolver) IN
  /\ lastCall' = [op |-> "compileSource", name |-> source,
                  thrown |-> r.thrown, returned |-> r.value]
  /\ UNCHANGED << config, list, bundlesCache, loadersCache, initTask,
                  startTask, calls, history >>

\* ---------------------------------------------------- ManifestProcessors
\* A JavaScript object is held as the sequence of its [key, value]
\* properties in the order they were created.
HasKey(obj, key) == \E i \in 1..Len(obj) : obj[i].key = key

\* obj[key]
GetProperty(obj, key) ==
  IF HasKey(obj, key)
  THEN LET i == CHOOSE k \in 1..Len(obj) : obj[k].key = key IN obj[i].value
  ELSE Undefined

\* obj[key] = value: an existing property keeps its place.
SetProperty(obj, key, value) ==
  IF HasKey(obj, key)
  THEN [i \in 1..Len(obj) |->
          IF obj[i].key = key THEN [key |-> key, value |-> value] ELSE obj[i]]
  ELSE Append(obj, [key |-> key, value |-> value])

RECURSIVE Ascending(_)
\* The integer-like keys of the set, by ascending number.
Ascending(keys) ==
  IF keys = {} THEN << >>
  ELSE LET least == CHOOSE k \in keys : \A o \in keys : IndexValue(k) <= IndexValue(o)
       IN << least >> \o Ascending(keys \ {least})

RECURSIVE CreationOrder(_)
\* The keys that are not integer-like, in the order of creation.
CreationOrder(obj) ==
  IF obj = << >> THEN << >>
  ELSE IF IndexValue(Head(obj).key) < 0
       THEN << Head(obj).key >> \o CreationOrder(Tail(obj))
       ELSE CreationOrder(Tail(obj))

\* Object.keys(obj): the integer-like keys first, by ascending number, then
\* the other keys in the order of creation.
ObjectKeys(obj) ==
  Ascending({ obj[i].key : i \in { k \in 1..Len(obj) : IndexValue(obj[k].key) >= 0 } })
    \o CreationOrder(obj)

RECURSIVE FirstAccepting(_, _, _)
\* The loop of getModuleTypeByManifest over keys.
FirstAccepting(tm, keys, m) ==
  IF keys = << >> THEN Undefined
  ELSE IF Matches(GetProperty(tm, Head(keys)), m) THEN Head(keys)
       ELSE FirstAccepting(tm, Tail(keys), m)

\* getModuleTypeByManifest(manifest) on the type matchers tm
getModuleTypeByManifest(tm, m) == FirstAccepting(tm, ObjectKeys(tm), m)

\* Registrations (registerManifestType calls) made in one behaviour.
MaxRegistrations == 3

\* registerManifestType(type, typeMatcher)
registerManifestType(type, matcher) ==
  /\ Len(registrations) < MaxRegistrations
  /\ typeMatchers' = SetProperty(typeMatchers, type, matcher)
  /\ registrations' = Append(registrations, [type |-> type, matcher |-> matcher])
  /\ lastCall' = Call("registerManifestType", type, "none")
  /\ UNCHANGED << urlFormatter, entrypoint, compiler, list, bundlesCache,
                  loadersCache, initTask, startTask, calls, history >>

\* runPreprocessor(manifest): the type the manifest is given decides which
\* hook runs; the type is recorded as what the call came to.
runPreprocessor(m) ==
  /\ lastCall' = Return("runPreprocessor", m.name,
                        getModuleTypeByManifest(typeMatchers, m))
  /\ UNCHANGED << config, list, bundlesCache, loadersCache, initTask,
                  startTask, calls, history >>

Next ==
  \/ defineUrlFormatter
  \/ defineEntrypoint
  \/ \E fn \in FilterFns : init(fn)
  \/ InitInstallList
  \/ InitBulkLoad
  \/ InitBulkStart
  \/ start
  \/ StartRunRunner
  \/ StartRunnerSettles
  \/ StartBulkLoad
  \/ StartBulkStart
  \/ \E n \in Names : loadBundleByName(n)
  \/ \E m \in ManualManifests, throws \in BOOLEAN : manuallyDefineBundle(m, throws)
  \/ \E n \in Names : PreprocessorSettles(n)
  \/ \E n \in Names : FetchResponds(n)
  \/ \E n \in Names : CompileSource(n)
  \/ \E n \in Names : PlaceInCache(n)
  \/ \E n \in Names : PostprocessorSettles(n)

Spec == Init /\ [][Next]_vars

\* The manifest processors alone: types are registered, manifests are
\* classified.
NextProcessors ==
  \/ \E type \in TypeKeys, matcher \in Matchers : registerManifestType(type, matcher)
  \/ \E m \in ClassifiedManifests : runPreprocessor(m)

SpecProcessors == Init /\ [][NextProcessors]_vars

\* compileSource alone: the host defines dependencies and the resolver, and
\* retrieved sources are compiled.
NextCompile ==
  \/ \E deps \in DependencyMaps : defineDependencies(deps)
  \/ \E resolver \in Resolvers : defineUnknownDependencyResolver(resolver)
  \/ \E source \in Sources : CompileBundle(source)

SpecCompile == Init /\ [][NextCompile]_vars

\* ------------------------------------------------------------ properties
HasManifest(l, n, strategies) ==
  \E i \in 1..Len(l) : l[i].name = n /\ l[i].loadStrategy \in strategies

MemberNames(task) == { task.members[i].name : i \in 1..Len(task.members) }

\* C1: for every module name at most one retrieval is issued and at most
\* one compile is run, whatever the callers do and however the load ended.
C1_AtMostOneRetrieval ==
  \A n \in Names : retrievals[n] <= 1 /\ compiles[n] <= 1

\* A caller asks for "a" by name while the load of "a" waits for its
\* retrieval, and gets the recorded task.
C1_Witness ==
  /\ lastCall = Call("loadBundleByName", "a", "none")
  /\ loadersCache["a"] = "fetch"
  /\ retrievals["a"] = 1

\* C2: the callers that asked for one name all got the same outcome of its
\* load: never the compiled module for one and no module for another.
C2_SameOutcome ==
  \A n \in Names : ~({COMPILED, VOID} \subseteq observed[n])

\* C3: a load by name of a declared name never throws to the caller, and a
\* load one of whose steps failed resolves to no module.
C3_FailureContained ==
  /\ ( /\ lastCall.op = "loadBundleByName"
       /\ listDefined
       /\ lastCall.name \in ListNames(bundlesList) )
     => lastCall.thrown = "none"
  /\ \A n \in Names :
       (failed[n] = {"load"} /\ loadersCache[n] \in Done) => loadersCache[n] = "void"

\* C4: a bulk pass is never rejected because of one of its bundles, and when
\* it is over every member for which nothing failed is in bundlesCache and
\* had its start export called.
PassIsolated(task) ==
  /\ task.phase \notin {"rej_load", "rej_start"}
  /\ task.phase = "resolved" =>
       \A i \in 1..Len(task.members) :
         LET n == task.members[i].name IN
         failed[n] = {} =>
           /\ bundlesCache[n] # NoModule
           /\ << n, bundlesCache[n] >> \in StartExports
                => startCount[<< n, bundlesCache[n] >>] >= 1

C4_BulkPassIsolated == PassIsolated(initTask) /\ PassIsolated(startTask)

\* C5: whenever the pass of start() has asked for a bundle, the host runner
\* was called before and its task has resolved.
C5_RunnerBeforeImmediate ==
  startTask.members # << >> => startTask.runner = "resolved"

\* The pass of start() has begun the load of the IMMEDIATELY bundle "b".
C5_Witness ==
  /\ startTask.phase = "loading"
  /\ startTask.runner = "resolved"
  /\ "b" \in MemberNames(startTask)
  /\ loadersCache["b"] = "pre"

\* C6: once init() has settled after installing the list, the load of every
\* BLOCK manifest of the list has settled, and if init() resolved the start
\* export of every loaded module of the pass was called.
C6_InitWaitsForBlock ==
  initTask.phase \in {"resolved", "rej_load", "rej_start"} =>
    /\ \A n \in Names :
         HasManifest(bundlesList, n, {BLOCK}) =>
           bundlesCache[n] # NoModule \/ loadersCache[n] \in Done
    /\ initTask.phase = "resolved" =>
         \A i \in 1..Len(initTask.members) :
           LET n == initTask.members[i].name
               v == Result(initTask.members[i])
           IN (v # VOID /\ << n, v >> \in StartExports) => startCount[<< n, v >>] >= 1

\* C7: no step of init() touches a bundle that the manifest list does not
\* hold as BLOCK: its in-flight entry and its compiled-cache entry stay as
\* they were, and the pass asks only for BLOCK manifests.
C7_InitLoadsOnlyBlock ==
  [][ initTask' # initTask =>
        /\ \A n \in Names :
             ~HasManifest(bundlesList', n, {BLOCK}) =>
               /\ loadersCache'[n] = loadersCache[n]
               /\ bundlesCache'[n] = bundlesCache[n]
        /\ \A n \in MemberNames(initTask') : HasManifest(bundlesList', n, {BLOCK})
    ]_vars

\* init() has resolved after loading "a"; "b", IMMEDIATELY in the list, has
\* no in-flight entry and is not loaded.
C7_Witness ==
  /\ initTask.phase = "resolved"
  /\ startTask.phase = "idle"
  /\ HasManifest(bundlesList, "b", {IMMEDIATELY})
  /\ bundlesCache["a"] = COMPILED
  /\ loadersCache["b"] = "absent"
  /\ bundlesCache["b"] = NoModule

\* C8: the start export of a module the loader compiled is called at most
\* once.  Stated for the host's first two public calls and a manifest list
\* without a repeated name: enough for a repeated call of init or start.
C8_StartExactlyOnce ==
  ( /\ calls <= 2
    /\ \A i, j \in 1..Len(bundlesList) :
         i # j => bundlesList[i].name # bundlesList[j].name )
  => \A n \in Names : startCount[<< n, COMPILED >>] <= 1

\* C9: manuallyDefineBundle for a name that is in bundlesCache throws the
\* "already defined" error and leaves the cache entry as it was.
C9_DuplicateRejected ==
  [][ \A n \in Names :
        ( /\ lastCall'.op = "manuallyDefineBundle"
          /\ lastCall'.name = n
          /\ listDefined
          /\ bundlesCache[n] # NoModule )
        => /\ lastCall'.thrown = "DuplicateManifest"
           /\ bundlesCache'[n] = bundlesCache[n]
    ]_vars

\* C10: no name occurs twice in the manifest list.
C10_UniqueNames ==
  \A i, j \in 1..Len(bundlesList) :
    i # j => bundlesList[i].name # bundlesList[j].name

\* C11: a load by name of a name that the manifest list does not hold, the
\* list still missing before init() included, throws the "is not declared"
\* error, and leaves loadersCache and bundlesCache as they were.
C11_AbsentNameNotDeclared ==
  [][ \A n \in Names :
        ( /\ lastCall'.op = "loadBundleByName"
          /\ lastCall'.name = n
          /\ (~listDefined \/ n \notin ListNames(bundlesList)) )
        => /\ lastCall'.thrown = "NotDeclared"
           /\ loadersCache' = loadersCache
           /\ bundlesCache' = bundlesCache
    ]_vars

\* C12: init() called while the url formatter or the entrypoint is not
\* defined throws the configuration error at once: the manifest list is not
\* asked for (init's promise is not even created), and the manifest list,
\* its stream, bundlesCache and loadersCache stay as they were.
C12_InitFailsFast ==
  [][ ( /\ lastCall'.op = "init"
        /\ (~urlFormatter \/ ~entrypoint) )
      => /\ lastCall'.thrown = "ConfigError"
         /\ initTask' = initTask
         /\ initTask'.phase # "fetchingList"
         /\ << listDefined, bundlesList, bundlesListStream >>' =
              << listDefined, bundlesList, bundlesListStream >>
         /\ bundlesCache' = bundlesCache
         /\ loadersCache' = loadersCache
    ]_vars

\* init() was called with the url formatter defined and the entrypoint not,
\* and threw.
C12_Witness ==
  /\ lastCall = Call("init", "-", "ConfigError")
  /\ urlFormatter
  /\ ~entrypoint
  /\ initTask = InitIdle
  /\ ~listDefined

\* C13: the manifest list never shrinks: every manifest the list holds
\* before a step is held by the list after it.
C13_ListNeverShrinks ==
  [][ \A i \in 1..Len(bundlesList) :
        \E j \in 1..Len(bundlesList') : bundlesList'[j] = bundlesList[i]
    ]_vars

\* C14: an entry of bundlesCache is permanent: a name that maps to a module
\* before a step maps to the same module after it.
C14_CachePermanent ==
  [][ \A n \in Names :
        bundlesCache[n] # NoModule => bundlesCache'[n] = bundlesCache[n]
    ]_vars

\* C17: the steps of one load are gated: the retrieval is issued only by the
\* callback on the resolved preprocessor task, compileSource runs only on a
\* retrieved source, the compiled module is placed in bundlesCache only by
\* the callback on a successful compile, and the postprocessor is waited for
\* only with the module placed.  A load whose preprocessor rejected, and any
\* load that has resolved to no module, issues no retrieval and runs no
\* compile, and the compiled module reaches bundlesCache in no later step.
C17_StepsGated ==
  [][ \A n \in Names :
        /\ retrievals'[n] # retrievals[n] =>
             loadersCache[n] = "pre" /\ loadersCache'[n] = "fetch"
        /\ compiles'[n] # compiles[n] =>
             loadersCache[n] = "compile" /\ retrievals[n] = 1
        /\ (bundlesCache'[n] = COMPILED /\ bundlesCache[n] # COMPILED) =>
             loadersCache[n] = "place" /\ compiles[n] = 1
        /\ (loadersCache'[n] = "post" /\ loadersCache[n] # "post") =>
             loadersCache[n] = "place" /\ bundlesCache'[n] = COMPILED
        /\ (loadersCache[n] = "pre" /\ loadersCache'[n] = "void") =>
             /\ retrievals'[n] = 0
             /\ compiles'[n] = 0
             /\ bundlesCache'[n] # COMPILED
        /\ loadersCache[n] = "void" =>
             /\ retrievals'[n] = retrievals[n]
             /\ compiles'[n] = compiles[n]
             /\ bundlesCache'[n] = COMPILED => bundlesCache[n] = COMPILED
    ]_vars

\* The preprocessor of "a" rejected: the load of "a" is over with no
\* retrieval and no compile; the load of "b" went through every step.
C17_Witness ==
  /\ loadersCache["a"] = "void"
  /\ retrievals["a"] = 0
  /\ compiles["a"] = 0
  /\ bundlesCache["a"] = NoModule
  /\ loadersCache["b"] = "module"
  /\ retrievals["b"] = 1
  /\ compiles["b"] = 1
  /\ bundlesCache["b"] = COMPILED

C20_ListPublished ==
  listDefined =>
    /\ bundlesListStream = bundlesList
    /\ \A fn \in FilterFns :
         LET got == subscribe(fn)
             kept == { i \in 1..Len(bundlesList) : FilterAccepts(fn, bundlesList[i]) }
         IN /\ Len(got) = Cardinality(kept)
            /\ \A k \in 1..Len(got) :
                 \E i \in kept :
                   /\ got[k] = bundlesList[i]
                   /\ Cardinality({ j \in kept : j < i }) = k - 1

\* init() installed a list of two and the host appended a manifest of "b":
\* the stream holds the three manifests, a subscriber that drops "b" holds
\* one.
C20_Witness ==
  /\ lastCall = Call("manuallyDefineBundle", "b", "none")
  /\ Len(bundlesList) = 3
  /\ Len(bundlesListStream) = 3
  /\ Len(subscribe("dropB")) = 1
  /\ Len(subscribe("none")) = 3

\* The registrations in force, in registration order: for every type key
\* the matcher it was given last, at the place the key was registered first.
RECURSIVE InForce(_, _)
InForce(regs, seen) ==
  IF regs = << >> THEN << >>
  ELSE LET type == Head(regs).type IN
       IF type \in seen THEN InForce(Tail(regs), seen)
       ELSE LET later == { i \in 1..Len(regs) : regs[i].type = type }
                last == CHOOSE i \in later : \A j \in later : j <= i
            IN << [type |-> type, matcher |-> regs[last].matcher] >>
                 \o InForce(Tail(regs), seen \cup {type})

RECURSIVE FirstRegistered(_, _)
FirstRegistered(regs, m) ==
  IF regs = << >> THEN Undefined
  ELSE IF Matches(Head(regs).matcher, m) THEN Head(regs).type
       ELSE FirstRegistered(Tail(regs), m)

\* C19: a manifest is given the type key of the first registration, in
\* registration order, whose matcher accepts it, whatever strings the type
\* keys are, and no type when no matcher accepts it.
C19_FirstRegisteredWins ==
  \A m \in ClassifiedManifests :
    /\ getModuleTypeByManifest(typeMatchers, m) =
         FirstRegistered(InForce(registrations, {}), m)
    /\ (lastCall.op = "runPreprocessor" /\ lastCall.name = m.name) =>
         lastCall.returned = FirstRegistered(InForce(registrations, {}), m)

\* The name d is neither in the dependency map nor known to the resolver
\* (no resolver defined included).
Missing(d) ==
  /\ dependencies[d] = Undefined
  /\ Resolve(unknownDependencyResolver, d) = Undefined

\* C15: require of a name that is neither in the dependency map nor
\* supplied by the resolver, no resolver defined included, always throws:
\* the source never gets undefined from it and the compile never succeeds
\* with it.
C15_MissingDependencyFails ==
  \A s \in Sources :
    ( /\ lastCall.op = "compileSource"
      /\ lastCall.name = s
      /\ Requires(s) # "-"
      /\ Missing(Requires(s)) )
    => /\ require(dependencies, unknownDependencyResolver, Requires(s)).thrown
            = "NoDependencyError"
       /\ lastCall.thrown # "none"
       /\ lastCall.returned # Undefined

\* C16: a compile in which require threw for a missing dependency fails
\* with that NoDependencyError, and a compile fails with CompileModuleError
\* only when the source text does not parse or throws by itself.
C16_FailureKindsDistinct ==
  \A s \in Sources :
    (lastCall.op = "compileSource" /\ lastCall.name = s) =>
      /\ ( /\ Requires(s) # "-"
           /\ require(dependencies, unknownDependencyResolver, Requires(s)).thrown
                = "NoDependencyError" )
         => lastCall.thrown = "NoDependencyError"
      /\ lastCall.thrown = "CompileModuleError" => s \in {"syntaxError", "throws"}
====
